---- MODULE Spec2Model ----
(***************************************************************************)
(* Model of the App component of src/services/geminiService.ts: the React  *)
(* state of App, the handler handleFetchVideo, the description call        *)
(* fetchVideoInfo and the streaming download downloadFileWithProgress.     *)
(*                                                                         *)
(* An async function runs atomically between two awaits, so there is one   *)
(* action per resumption: the click, the settling of the description call, *)
(* the settling of fetch() and the settling of each reader.read().         *)
(*                                                                         *)
(* JavaScript strings that the code inspects character by character are    *)
(* sequences of one-character strings; a nullable value is a record with a *)
(* presence flag or, for messages, the empty sequence; a JavaScript number *)
(* that may be NaN or Infinity is a record [k, n, d].                      *)
(*                                                                         *)
(* Spec is the app as the user drives it. SpecTwo runs a second            *)
(* downloadFileWithProgress beside the first, on the same App state.       *)
(* SpecPure calls safeFilename and fetchVideoInfo on their own, on every   *)
(* argument of a bounded set.                                              *)
(***************************************************************************)
EXTENDS Integers, Sequences, FiniteSets, TLC

(* ---------------------------- bounds ---------------------------------- *)

\* longest file name given to safeFilename on its own
MaxNameLen == 3
\* most spaces before and after the text generateContent answers with
MaxPad == 2

\* most chunks one response body delivers before it closes or errors
MaxChunks == 3
\* most bytes in one chunk
MaxChunkLen == 2

(* ------------------------ JavaScript numbers -------------------------- *)

Num(n, d) == [k |-> "num", n |-> n, d |-> d]
NaN == [k |-> "nan", n |-> 0, d |-> 1]
Infinity == [k |-> "inf", n |-> 1, d |-> 1]
\* the null of a number | null state
NullNumber == [k |-> "null", n |-> 0, d |-> 1]

\* a / b for a finite a >= 0 and a finite or NaN b
JsDiv(a, b) ==
  IF a.k = "nan" \/ b.k = "nan" THEN NaN
  ELSE IF b.n = 0 THEN (IF a.n = 0 THEN NaN ELSE Infinity)
  ELSE IF b.n < 0 THEN Num((0 - a.n) * b.d, a.d * (0 - b.n))
  ELSE Num(a.n * b.d, a.d * b.n)

\* a * c for a non-negative integer constant c > 0
JsMulInt(a, c) ==
  IF a.k = "num" THEN Num(a.n * c, a.d) ELSE a

\* a < b ; every comparison with NaN is false
JsLess(a, b) ==
  IF a.k = "nan" \/ b.k = "nan" THEN FALSE
  ELSE IF a.k = "inf" THEN FALSE
  ELSE IF b.k = "inf" THEN TRUE
  ELSE a.n * b.d < b.n * a.d

\* a !== b on numbers ; NaN differs from everything, itself included
JsStrictNeq(a, b) ==
  IF a.k = "nan" \/ b.k = "nan" THEN TRUE
  ELSE IF a.k = "inf" \/ b.k = "inf" THEN a.k # b.k
  ELSE a.n * b.d # b.n * a.d

(* ----------------------------- strings -------------------------------- *)

Digits == {"0", "1", "2", "3", "4", "5", "6", "7", "8", "9"}
Lower == {"a", "b", "c", "d", "e", "f", "g", "h", "i", "j", "k", "l", "m",
          "n", "o", "p", "q", "r", "s", "t", "u", "v", "w", "x", "y", "z"}
Upper == {"A", "B", "C", "D", "E", "F", "G", "H", "I", "J", "K", "L", "M",
          "N", "O", "P", "Q", "R", "S", "T", "U", "V", "W", "X", "Y", "Z"}

DigitVal(c) ==
  CASE c = "0" -> 0 [] c = "1" -> 1 [] c = "2" -> 2 [] c = "3" -> 3
    [] c = "4" -> 4 [] c = "5" -> 5 [] c = "6" -> 6 [] c = "7" -> 7
    [] c = "8" -> 8 [] c = "9" -> 9

RECURSIVE DropLeadingSpaces(_)
DropLeadingSpaces(s) ==
  IF s # <<>> /\ Head(s) = " " THEN DropLeadingSpaces(Tail(s)) ELSE s

RECURSIVE DropTrailingSpaces(_)
DropTrailingSpaces(s) ==
  IF s # <<>> /\ s[Len(s)] = " "
  THEN DropTrailingSpaces(SubSeq(s, 1, Len(s) - 1))
  ELSE s

\* Trim taking the spaces off the start only (trimStart)
TrimStartOnly(s) == DropLeadingSpaces(s)

\* String.prototype.trim on a string whose only white space is the space
Trim(s) == DropTrailingSpaces(DropLeadingSpaces(s))

RECURSIVE DigitPrefixValue(_, _)
DigitPrefixValue(s, acc) ==
  IF s # <<>> /\ Head(s) \in Digits
  THEN DigitPrefixValue(Tail(s), acc * 10 + DigitVal(Head(s)))
  ELSE acc

\* parseInt(s, 10): leading white space skipped, an optional sign, then the
\* longest prefix of decimal digits; NaN when that prefix is empty
ParseInt10(s) ==
  LET t == DropLeadingSpaces(s)
      neg == t # <<>> /\ Head(t) = "-"
      u == IF t # <<>> /\ Head(t) \in {"-", "+"} THEN Tail(t) ELSE t
  IN IF u = <<>> \/ Head(u) \notin Digits THEN NaN
     ELSE Num((IF neg THEN -1 ELSE 1) * DigitPrefixValue(u, 0), 1)

RECURSIVE Flatten(_)
\* the bytes of new Blob(chunks): the chunks' bytes, in the array's order
Flatten(cs) == IF cs = <<>> THEN <<>> ELSE Head(cs) \o Flatten(Tail(cs))

RECURSIVE TotalLength(_)
TotalLength(cs) == IF cs = <<>> THEN 0 ELSE Len(Head(cs)) + TotalLength(Tail(cs))

(* --------------------------- safeFilename ----------------------------- *)

\* the characters /[^a-z0-9_ -]/ig does not match
AllowedChars == Lower \cup Upper \cup Digits \cup {"_", " ", "-"}

RECURSIVE StripDisallowed(_)
StripDisallowed(s) ==
  IF s = <<>> THEN <<>>
  ELSE IF Head(s) \in AllowedChars
       THEN <<Head(s)>> \o StripDisallowed(Tail(s))
       ELSE StripDisallowed(Tail(s))

VideoToken == <<"v", "i", "d", "e", "o">>
Mp4Suffix == <<".", "m", "p", "4">>

\* safeFilename without the || 'video'
safeFilenameNoFallback(filename) == Trim(StripDisallowed(filename))

\* safeFilename trimming before it strips
safeFilenameTrimFirst(filename) ==
  LET t == StripDisallowed(Trim(filename))
  IN IF t = <<>> THEN VideoToken ELSE t

safeFilename(filename) ==
  LET t == Trim(StripDisallowed(filename))
  IN IF t = <<>> THEN VideoToken ELSE t

(* --------------------------- fetchVideoInfo --------------------------- *)

\* The generated text is a sequence of lexemes: a " " lexeme is one space,
\* any other lexeme is a run of characters without surrounding white space.
TitledJson == "{\"title\":\"My Video!! #1 <2024>\",\"summary\":\"S\"}"
SymbolsJson == "{\"title\":\"<?>\",\"summary\":\"S\"}"
NoSummaryJson == "{\"title\":\"Clip\"}"
EmptyTitleJson == "{\"title\":\"\",\"summary\":\"S\"}"

ScenarioTitle == <<"M", "y", " ", "V", "i", "d", "e", "o", "!", "!", " ",
                   "#", "1", " ", "<", "2", "0", "2", "4", ">">>
SymbolsTitle == <<"<", "?", ">">>

\* JSON.parse on the texts the description call is given here
JSONParse(jsonText) ==
  LET Obj(ht, t, hs, s) ==
        [throws |-> FALSE, isNull |-> FALSE, hasTitle |-> ht, title |-> t,
         hasSummary |-> hs, summary |-> s]
  IN CASE jsonText = <<"null">> ->
            [throws |-> FALSE, isNull |-> TRUE, hasTitle |-> FALSE,
             title |-> <<>>, hasSummary |-> FALSE, summary |-> <<>>]
       [] jsonText = <<"{}">> -> Obj(FALSE, <<>>, FALSE, <<>>)
       [] jsonText = <<NoSummaryJson>> ->
            Obj(TRUE, <<"C", "l", "i", "p">>, FALSE, <<>>)
       [] jsonText = <<EmptyTitleJson>> -> Obj(TRUE, <<>>, TRUE, <<"S">>)
       [] jsonText = <<TitledJson>> -> Obj(TRUE, ScenarioTitle, TRUE, <<"S">>)
       [] jsonText = <<SymbolsJson>> -> Obj(TRUE, SymbolsTitle, TRUE, <<"S">>)
       [] OTHER ->
            [throws |-> TRUE, isNull |-> FALSE, hasTitle |-> FALSE,
             title |-> <<>>, hasSummary |-> FALSE, summary |-> <<>>]

FallbackTitle == <<"A", "I", " ", "C", "o", "u", "l", "d", " ", "N", "o", "t",
                   " ", "D", "e", "t", "e", "r", "m", "i", "n", "e", " ",
                   "T", "i", "t", "l", "e">>
FallbackSummary ==
  <<"There was an issue generating the video summary. Please check the URL or try again later.">>
FallbackInfo == [title |-> FallbackTitle, summary |-> FallbackSummary]

\* what ai.models.generateContent can settle with
GenOutcomes ==
  {[rejects |-> TRUE, hasText |-> FALSE, text |-> <<>>],
   [rejects |-> FALSE, hasText |-> FALSE, text |-> <<>>]}
  \cup {[rejects |-> FALSE, hasText |-> TRUE, text |-> t] :
          t \in {<<>>, <<" ", " ">>, <<"oops">>, <<"null">>, <<"{}">>,
                 <<NoSummaryJson>>, <<EmptyTitleJson>>,
                 <<" ", TitledJson, " ">>, <<SymbolsJson>>}}

\* fetchVideoInfo returning whatever JSON.parse gave, without the check of
\* title and summary
fetchVideoInfoUnchecked(gen) ==
  IF gen.rejects THEN FallbackInfo
  ELSE IF ~gen.hasText THEN FallbackInfo
  ELSE LET jsonText == Trim(gen.text)
           parsedResponse == JSONParse(jsonText)
       IN IF jsonText = <<>> THEN FallbackInfo
          ELSE IF parsedResponse.throws THEN FallbackInfo
          ELSE [title |-> parsedResponse.title, summary |-> parsedResponse.summary]

\* the record fetchVideoInfo resolves to, given how generateContent settled
fetchVideoInfo(gen) ==
  IF gen.rejects THEN FallbackInfo
  ELSE IF ~gen.hasText THEN FallbackInfo            \* .trim() of undefined throws
  ELSE LET jsonText == Trim(gen.text)
           parsedResponse == JSONParse(jsonText)
       IN IF jsonText = <<>> THEN FallbackInfo
          ELSE IF parsedResponse.throws THEN FallbackInfo
          ELSE IF /\ ~parsedResponse.isNull
                  /\ parsedResponse.hasTitle /\ parsedResponse.title # <<>>
                  /\ parsedResponse.hasSummary /\ parsedResponse.summary # <<>>
               THEN [title |-> parsedResponse.title,
                     summary |-> parsedResponse.summary]
               ELSE FallbackInfo

(* --------------------------- extractVideoId --------------------------- *)

IdChars == Lower \cup Upper \cup Digits \cup {"_", "-"}
\* the characters \s matches, among those a url typed here can hold
WhiteSpace == {" ", "\t", "\n", "\r"}

SetMin(S) == CHOOSE x \in S : \A y \in S : x <= y
SetMax(S) == CHOOSE x \in S : \A y \in S : x >= y

\* the literal lit stands in u at position p
LitAt(u, p, lit) ==
  /\ p + Len(lit) - 1 <= Len(u)
  /\ SubSeq(u, p, p + Len(lit) - 1) = lit

\* ([a-zA-Z0-9_-]{11}) matches in u at position p
IdAt(u, p) ==
  /\ p + 10 <= Len(u)
  /\ \A i \in p..(p + 10) : u[i] \in IdChars

HttpsLit == <<"h", "t", "t", "p", "s", ":", "/", "/">>
HttpLit == <<"h", "t", "t", "p", ":", "/", "/">>
WwwLit == <<"w", "w", "w", ".">>
YoutubeLit == <<"y", "o", "u", "t", "u", "b", "e", ".", "c", "o", "m", "/">>
YoutuBeLit == <<"y", "o", "u", "t", "u", ".", "b", "e", "/">>
EmbedLit == <<"e", "m", "b", "e", "d", "/">>

\* [^\/\n\s]+\/\S+\/ from position q, then the id: the position of the id
\* the backtracking search finds first (\S+ is greedy), or 0
PathAlt(u, q) ==
  LET ends == {j \in (q + 3)..Len(u) :
                 /\ u[j] = "/"
                 /\ IdAt(u, j + 1)
                 /\ \E i \in (q + 1)..(j - 2) :
                      /\ u[i] = "/"
                      /\ \A x \in q..(i - 1) : u[x] \notin WhiteSpace \cup {"/"}
                      /\ \A x \in (i + 1)..(j - 1) : u[x] \notin WhiteSpace}
  IN IF ends = {} THEN 0 ELSE SetMax(ends) + 1

\* (?:v|e(?:mbed)?)\/ from position q, then the id
EmbedAlt(u, q) ==
  IF LitAt(u, q, <<"v", "/">>) /\ IdAt(u, q + 2) THEN q + 2
  ELSE IF LitAt(u, q, EmbedLit) /\ IdAt(u, q + 6) THEN q + 6
  ELSE IF LitAt(u, q, <<"e", "/">>) /\ IdAt(u, q + 2) THEN q + 2
  ELSE 0

\* \S*?[?&]v= from position q, then the id (\S*? is lazy)
QueryAlt(u, q) ==
  LET marks == {k \in q..Len(u) :
                  /\ u[k] \in {"?", "&"}
                  /\ LitAt(u, k + 1, <<"v", "=">>)
                  /\ IdAt(u, k + 3)
                  /\ \A x \in q..(k - 1) : u[x] \notin WhiteSpace}
  IN IF marks = {} THEN 0 ELSE SetMin(marks) + 3

\* (?:youtube\.com\/(?:...|...|...)|youtu\.be\/) at position c, then the id
HostAt(u, c) ==
  IF LitAt(u, c, YoutubeLit)
  THEN IF PathAlt(u, c + 12) # 0 THEN PathAlt(u, c + 12)
       ELSE IF EmbedAlt(u, c + 12) # 0 THEN EmbedAlt(u, c + 12)
       ELSE QueryAlt(u, c + 12)
  ELSE IF LitAt(u, c, YoutuBeLit) /\ IdAt(u, c + 9) THEN c + 9
  ELSE 0

\* (?:www\.)? at position c, then the rest
WwwAt(u, c) ==
  IF LitAt(u, c, WwwLit) /\ HostAt(u, c + 4) # 0 THEN HostAt(u, c + 4)
  ELSE HostAt(u, c)

\* the whole regex tried at position s
RegexAt(u, s) ==
  LET p == IF LitAt(u, s, HttpsLit) THEN 8
           ELSE IF LitAt(u, s, HttpLit) THEN 7 ELSE 0
  IN IF p # 0 /\ WwwAt(u, s + p) # 0 THEN WwwAt(u, s + p) ELSE WwwAt(u, s)

\* extractVideoId taking whatever follows the last "/" for the id
extractVideoIdLoose(url) ==
  LET slashes == {i \in 1..Len(url) : url[i] = "/"}
  IN IF slashes = {} \/ SetMax(slashes) = Len(url)
     THEN [matched |-> FALSE, id |-> <<>>]
     ELSE [matched |-> TRUE, id |-> SubSeq(url, SetMax(slashes) + 1, Len(url))]

\* url.match(regex): the leftmost position where the regex matches decides;
\* match[1] is the id, null when there is no match
extractVideoId(url) ==
  LET starts == {s \in 1..Len(url) : RegexAt(url, s) # 0}
      at == RegexAt(url, SetMin(starts))
  IN IF starts = {} THEN [matched |-> FALSE, id |-> <<>>]
     ELSE [matched |-> TRUE, id |-> SubSeq(url, at, at + 10)]

WatchUrl == <<"h", "t", "t", "p", "s", ":", "/", "/", "w", "w", "w", ".",
              "y", "o", "u", "t", "u", "b", "e", ".", "c", "o", "m", "/",
              "w", "a", "t", "c", "h", "?", "v", "=", "d", "Q", "w", "4",
              "w", "9", "W", "g", "X", "c", "Q">>
ShortIdUrl == <<"h", "t", "t", "p", "s", ":", "/", "/", "y", "o", "u", "t",
                "u", ".", "b", "e", "/", "a", "b", "c">>
\* what the user can type into the input
Urls == {<<>>, ShortIdUrl, WatchUrl}

(* ------------------------- the transfer source ------------------------ *)

\* The code never looks at a byte's value, so the resource is the bytes
\* 0, 1, 2, ... in this order: every byte of a body is distinct, and a body
\* is determined by the lengths of the chunks it is cut into.
ChunkLengths == UNION {[1..n -> 0..MaxChunkLen] : n \in 0..MaxChunks}

RECURSIVE BodyOf(_, _)
BodyOf(lens, first) ==
  IF lens = <<>> THEN <<>>
  ELSE <<[i \in 1..Head(lens) |-> (first + i - 1) % 256]>>
       \o BodyOf(Tail(lens), first + Head(lens))

Bodies == {BodyOf(lens, 0) : lens \in ChunkLengths}

NoHeader == [present |-> FALSE, value |-> <<>>]
\* headers.get('content-length'): null, or the header's text
LengthHeaders ==
  {NoHeader} \cup {[present |-> TRUE, value |-> v] :
                     v \in {<<>>, <<"0">>, <<"4">>, <<"1", "0">>}}

Statuses == {200, 404}

NoSource ==
  [rejects |-> FALSE, status |-> 0, hasBody |-> FALSE, contentLength |-> NoHeader,
   body |-> <<>>, ends |-> "close"]

\* what fetch(url) can settle with: a rejection, or a response with a status,
\* possibly a body stream, and the content-length header; the body stream
\* delivers its chunks in order and then closes or errors
FetchOutcomes ==
  {[NoSource EXCEPT !.rejects = TRUE]}
  \cup {[rejects |-> FALSE, status |-> s, hasBody |-> FALSE, contentLength |-> h,
         body |-> <<>>, ends |-> "close"] : s \in Statuses, h \in LengthHeaders}
  \cup {[rejects |-> FALSE, status |-> s, hasBody |-> TRUE, contentLength |-> h,
         body |-> b, ends |-> e] :
          s \in Statuses, h \in LengthHeaders, b \in Bodies, e \in {"close", "error"}}

\* response.ok
ResponseOk(r) == r.status \in 200..299

(* ------------------------------- state -------------------------------- *)

VARIABLES
  \* useState of App
  videoUrl, videoDetails, isLoading, isDownloading, downloadProgress, error,
  \* the running handleFetchVideo: where it is suspended, and its videoId
  hpc, videoId,
  \* the running downloadFileWithProgress: where it is suspended, its locals
  pc, filename, total, receivedLength, chunks,
  \* what fetch() settled with, and how many chunks its reader has handed out
  source, readPos,
  \* a cancellation request raised by the caller of the session, pending
  \* while the session runs
  cancelSignal,
  \* what the current session has done so far: calls of fetch, of
  \* reader.read and of setDownloadProgress, console.warn lines, links
  \* clicked, and how its promise settled
  fetchCalls, readCalls, progressLog, warnings, clicked, outcome,
  \* a second call of downloadFileWithProgress made while the first one runs:
  \* where it is suspended, its locals and its source
  other,
  \* one call of safeFilename or of fetchVideoInfo on its own: the argument,
  \* and the results once the call has been made
  probe

appVars == <<videoUrl, videoDetails, isLoading, isDownloading, downloadProgress, error>>
handlerVars == <<hpc, videoId>>
frameVars == <<pc, filename, total, receivedLength, chunks>>
sessionVars == <<fetchCalls, readCalls, progressLog, warnings, clicked, outcome>>
extraVars == <<other, probe>>
vars == <<appVars, handlerVars, frameVars, source, readPos, cancelSignal, sessionVars,
          extraVars>>

NoOutcome == [state |-> "none", message |-> <<>>, thrownAt |-> 0]
Pending == [state |-> "pending", message |-> <<>>, thrownAt |-> 0]
Fulfilled == [state |-> "fulfilled", message |-> <<>>, thrownAt |-> 0]
Rejected(message, line) == [state |-> "rejected", message |-> message, thrownAt |-> line]

\* no second call of downloadFileWithProgress
NoOther ==
  [pc |-> "none", filename |-> <<>>, total |-> NullNumber, receivedLength |-> 0,
   chunks |-> <<>>, source |-> NoSource, readPos |-> 0, warnings |-> <<>>,
   clicked |-> <<>>, outcome |-> NoOutcome]

\* no call of a function on its own
NoInfo == [title |-> <<>>, summary |-> <<>>]
NoGen == [rejects |-> FALSE, hasText |-> FALSE, text |-> <<>>]
NoProbe ==
  [fn |-> "none", called |-> 0, name |-> <<>>, safe |-> <<>>, again |-> <<>>,
   gen |-> NoGen, info |-> NoInfo]

InitApp ==
  /\ videoUrl = <<>>
  /\ videoDetails = <<>>
  /\ isLoading = FALSE
  /\ isDownloading = FALSE
  /\ downloadProgress = NullNumber
  /\ error = <<>>
  /\ hpc = "idle"
  /\ videoId = <<>>
  /\ pc = "none"
  /\ filename = <<>>
  /\ total = NullNumber
  /\ receivedLength = 0
  /\ chunks = <<>>
  /\ source = NoSource
  /\ readPos = 0
  /\ cancelSignal = FALSE
  /\ fetchCalls = 0
  /\ readCalls = 0
  /\ progressLog = <<>>
  /\ warnings = <<>>
  /\ clicked = <<>>
  /\ outcome = NoOutcome
  /\ other = NoOther

Init == InitApp /\ probe = NoProbe

(* ------------------------------ the input ----------------------------- *)

\* disabled={isLoading || isDownloading} of the input and of the button
Disabled == isLoading \/ isDownloading

\* onChange of the input
SetVideoUrl(u) ==
  /\ ~Disabled
  /\ u # videoUrl
  /\ videoUrl' = u
  /\ UNCHANGED <<videoDetails, isLoading, isDownloading, downloadProgress, error>>
  /\ UNCHANGED <<handlerVars, frameVars, source, readPos, cancelSignal, sessionVars>>
  /\ UNCHANGED extraVars

(* --------------------------- handleFetchVideo ------------------------- *)

\* onClick of the button: handleFetchVideo up to its first await. A new run
\* of the handler starts with an empty record of what its session has done.
Click ==
  /\ ~Disabled
  /\ IF videoUrl = <<>>
     THEN /\ error' = <<"Please enter a YouTube URL.">>
          /\ UNCHANGED <<videoUrl, videoDetails, isLoading, isDownloading, downloadProgress>>
          /\ UNCHANGED handlerVars
     ELSE IF ~extractVideoId(videoUrl).matched
     THEN /\ error' = <<"Invalid YouTube URL. Please check and try again.">>
          /\ UNCHANGED <<videoUrl, videoDetails, isLoading, isDownloading, downloadProgress>>
          /\ UNCHANGED handlerVars
     ELSE /\ isLoading' = TRUE
          /\ error' = <<>>
          /\ videoDetails' = <<>>
          /\ videoId' = extractVideoId(videoUrl).id
          /\ hpc' = "awaitInfo"
          /\ UNCHANGED <<videoUrl, isDownloading, downloadProgress>>
  /\ source' = NoSource
  /\ readPos' = 0
  /\ fetchCalls' = 0
  /\ readCalls' = 0
  /\ progressLog' = <<>>
  /\ warnings' = <<>>
  /\ clicked' = <<>>
  /\ outcome' = NoOutcome
  /\ UNCHANGED <<frameVars, cancelSignal, extraVars>>

\* the catch of handleFetchVideo: the message it shows
HandlerErrorMessage(message) == <<"Failed to process video. ">> \o message

(* ----------------------- downloadFileWithProgress --------------------- *)

\* the catch of downloadFileWithProgress: the message of the error it throws
DownloadErrorMessage(message) == <<"Could not download the video file. ">> \o message

\* CheckResponse without the check of the content-length header
CheckResponseNoLength(r) ==
  IF ~ResponseOk(r)
  THEN [line |-> 131, message |-> <<"HTTP error! status: ", ToString(r.status)>>]
  ELSE IF ~r.hasBody
  THEN [line |-> 135, message |-> <<"Response body is null.">>]
  ELSE [line |-> 0, message |-> <<>>]

\* CheckResponse with the content-length header looked at first
CheckResponseLengthFirst(r) ==
  IF ~r.contentLength.present \/ r.contentLength.value = <<>>
  THEN [line |-> 140, message |-> <<"Content-Length response header unavailable.">>]
  ELSE IF ~ResponseOk(r)
  THEN [line |-> 131, message |-> <<"HTTP error! status: ", ToString(r.status)>>]
  ELSE IF ~r.hasBody
  THEN [line |-> 135, message |-> <<"Response body is null.">>]
  ELSE [line |-> 0, message |-> <<>>]

\* the checks between the response and the read loop: the line of the first
\* throw and its message, or line 0 when the response passes them all
CheckResponse(r) ==
  IF ~ResponseOk(r)
  THEN [line |-> 131, message |-> <<"HTTP error! status: ", ToString(r.status)>>]
  ELSE IF ~r.hasBody
  THEN [line |-> 135, message |-> <<"Response body is null.">>]
  ELSE IF ~r.contentLength.present \/ r.contentLength.value = <<>>
  THEN [line |-> 140, message |-> <<"Content-Length response header unavailable.">>]
  ELSE [line |-> 0, message |-> <<>>]

\* ReadResult with a failed read taken for the end of the data
ReadResultErrorAsDone(src, pos) ==
  IF pos < Len(src.body) THEN "chunk" ELSE "done"

\* what the pending reader.read() settles with
ReadResult(src, pos) ==
  IF pos < Len(src.body) THEN "chunk"
  ELSE IF src.ends = "error" THEN "error"
  ELSE "done"

\* PushChunk putting the chunk in front (unshift)
PushChunkFront(cs, value) == <<value>> \o cs

\* chunks.push(value)
PushChunk(cs, value) == Append(cs, value)

\* AddReceived counting chunks instead of bytes
AddReceivedOne(received, value) == received + 1

\* receivedLength += value.length
AddReceived(received, value) == received + Len(value)

\* Progress with the operands of the division swapped
ProgressSwapped(received, tot) == JsMulInt(JsDiv(tot, Num(received, 1)), 100)

\* Progress without the multiplication: the fraction instead of the percentage
ProgressFraction(received, tot) == JsDiv(Num(received, 1), tot)

\* (receivedLength / total) * 100
Progress(received, tot) == JsMulInt(JsDiv(Num(received, 1), tot), 100)

\* LengthMismatch noticing only a short transfer
LengthMismatchShort(received, tot) == JsLess(Num(received, 1), tot)

\* receivedLength !== total
LengthMismatch(received, tot) == JsStrictNeq(Num(received, 1), tot)

\* the link that is clicked: the blob behind its href and its download name
MakeLink(cs, name) ==
  [bytes |-> Flatten(cs), type |-> "video/mp4",
   download |-> safeFilename(name) \o Mp4Suffix]

\* Leave with a handler whose catch does not call setError
LeaveSilent(result) ==
  /\ isDownloading' = FALSE
  /\ downloadProgress' = NullNumber
  /\ progressLog' = Append(progressLog, NullNumber)
  /\ outcome' = result
  /\ error' = error
  /\ isLoading' = FALSE
  /\ hpc' = "idle"
  /\ pc' = "none"
  /\ filename' = <<>>
  /\ total' = NullNumber
  /\ receivedLength' = 0
  /\ chunks' = <<>>
  /\ cancelSignal' = FALSE
  /\ UNCHANGED <<videoUrl, videoDetails, videoId, fetchCalls>>

\* Leave with the reset of the download state after the try instead of in a
\* finally: it is skipped when the download throws
LeaveNoFinally(result) ==
  /\ isDownloading' = (result.state = "rejected")
  /\ downloadProgress' = IF result.state = "rejected" THEN downloadProgress
                         ELSE NullNumber
  /\ progressLog' = IF result.state = "rejected" THEN progressLog
                    ELSE Append(progressLog, NullNumber)
  /\ outcome' = result
  /\ error' = IF result.state = "rejected"
              THEN HandlerErrorMessage(result.message)
              ELSE error
  /\ isLoading' = FALSE
  /\ hpc' = "idle"
  /\ pc' = "none"
  /\ filename' = <<>>
  /\ total' = NullNumber
  /\ receivedLength' = 0
  /\ chunks' = <<>>
  /\ cancelSignal' = FALSE
  /\ UNCHANGED <<videoUrl, videoDetails, videoId, fetchCalls>>

\* the end of downloadFileWithProgress, by return or by throw, and of the
\* handleFetchVideo that awaits it: the finally blocks of both, and the catch
\* of the handler when the download threw
Leave(result) ==
  /\ isDownloading' = FALSE
  /\ downloadProgress' = NullNumber
  /\ progressLog' = Append(progressLog, NullNumber)
  /\ outcome' = result
  /\ error' = IF result.state = "rejected"
              THEN HandlerErrorMessage(result.message)
              ELSE error
  /\ isLoading' = FALSE
  /\ hpc' = "idle"
  /\ pc' = "none"
  /\ filename' = <<>>
  /\ total' = NullNumber
  /\ receivedLength' = 0
  /\ chunks' = <<>>
  /\ cancelSignal' = FALSE
  /\ UNCHANGED <<videoUrl, videoDetails, videoId, fetchCalls>>

\* Throw with one more attempt of the request before giving up
ThrowRetry(line, message) ==
  IF fetchCalls < 2
  THEN /\ pc' = "awaitFetch"
       /\ fetchCalls' = fetchCalls + 1
       /\ total' = NullNumber
       /\ receivedLength' = 0
       /\ chunks' = <<>>
       /\ UNCHANGED <<appVars, handlerVars, filename, cancelSignal, progressLog, outcome>>
  ELSE Leave(Rejected(DownloadErrorMessage(message), line))

\* a throw inside the try of downloadFileWithProgress, at the given line
Throw(line, message) == Leave(Rejected(DownloadErrorMessage(message), line))

\* InfoSettles with a handler that gives up when the description fell back
InfoSettlesStopOnFallback(gen) ==
  /\ hpc = "awaitInfo"
  /\ IF fetchVideoInfo(gen) = FallbackInfo
     THEN /\ error' = HandlerErrorMessage(<<"No description.">>)
          /\ isLoading' = FALSE
          /\ hpc' = "idle"
          /\ UNCHANGED <<videoUrl, videoDetails, isDownloading, downloadProgress,
                         videoId, frameVars, fetchCalls, progressLog, outcome>>
     ELSE /\ LET info == fetchVideoInfo(gen)
                 details == [id |-> videoId, title |-> info.title,
                             summary |-> info.summary,
                             thumbnailUrl |-> <<"https://img.youtube.com/vi/">>
                                              \o videoId \o <<"/hqdefault.jpg">>]
             IN /\ videoDetails' = <<details>>
                /\ filename' = details.title
          /\ isDownloading' = TRUE
          /\ downloadProgress' = Num(0, 1)
          /\ progressLog' = Append(progressLog, Num(0, 1))
          /\ fetchCalls' = fetchCalls + 1
          /\ outcome' = Pending
          /\ hpc' = "awaitDownload"
          /\ pc' = "awaitFetch"
          /\ UNCHANGED <<videoUrl, isLoading, error, videoId, total, receivedLength,
                         chunks>>
  /\ UNCHANGED <<source, readPos, cancelSignal, readCalls, warnings, clicked>>
  /\ UNCHANGED extraVars

\* fetchVideoInfo settles: handleFetchVideo stores the details and calls
\* downloadFileWithProgress, which runs up to its await of fetch
InfoSettles(gen) ==
  /\ hpc = "awaitInfo"
  /\ LET info == fetchVideoInfo(gen)
         details == [id |-> videoId, title |-> info.title, summary |-> info.summary,
                     thumbnailUrl |-> <<"https://img.youtube.com/vi/">> \o videoId
                                      \o <<"/hqdefault.jpg">>]
     IN /\ videoDetails' = <<details>>
        /\ filename' = details.title
  /\ isDownloading' = TRUE
  /\ downloadProgress' = Num(0, 1)
  /\ progressLog' = Append(progressLog, Num(0, 1))
  /\ fetchCalls' = fetchCalls + 1
  /\ outcome' = Pending
  /\ hpc' = "awaitDownload"
  /\ pc' = "awaitFetch"
  /\ UNCHANGED <<videoUrl, isLoading, error, videoId, total, receivedLength, chunks>>
  /\ UNCHANGED <<source, readPos, cancelSignal, readCalls, warnings, clicked>>
  /\ UNCHANGED extraVars

\* fetch settles: the checks of the response, then the first reader.read()
FetchSettles(r) ==
  /\ pc = "awaitFetch"
  /\ source' = r
  /\ readPos' = 0
  /\ UNCHANGED extraVars
  /\ IF r.rejects
     THEN /\ Throw(125, <<"Failed to fetch">>)
          /\ UNCHANGED <<readCalls, warnings, clicked>>
     ELSE IF CheckResponse(r).line # 0
     THEN /\ Throw(CheckResponse(r).line, CheckResponse(r).message)
          /\ UNCHANGED <<readCalls, warnings, clicked>>
     ELSE /\ total' = ParseInt10(r.contentLength.value)
          /\ receivedLength' = 0
          /\ chunks' = <<>>
          /\ readCalls' = readCalls + 1
          /\ pc' = "awaitRead"
          /\ UNCHANGED <<appVars, handlerVars, filename, cancelSignal>>
          /\ UNCHANGED <<fetchCalls, progressLog, warnings, clicked, outcome>>

\* reader.read() settles with a chunk: one turn of the loop, up to the next read
ReadChunk ==
  /\ pc = "awaitRead"
  /\ ReadResult(source, readPos) = "chunk"
  /\ LET value == source.body[readPos + 1]
         received == AddReceived(receivedLength, value)
     IN /\ chunks' = PushChunk(chunks, value)
        /\ receivedLength' = received
        /\ downloadProgress' = Progress(received, total)
        /\ progressLog' = Append(progressLog, Progress(received, total))
  /\ readPos' = readPos + 1
  /\ readCalls' = readCalls + 1
  /\ UNCHANGED <<videoUrl, videoDetails, isLoading, isDownloading, error>>
  /\ UNCHANGED <<handlerVars, pc, filename, total, source, cancelSignal>>
  /\ UNCHANGED <<fetchCalls, warnings, clicked, outcome, extraVars>>

\* reader.read() rejects
ReadError ==
  /\ pc = "awaitRead"
  /\ ReadResult(source, readPos) = "error"
  /\ Throw(151, <<"network error">>)
  /\ UNCHANGED <<source, readPos, readCalls, warnings, clicked, extraVars>>

\* reader.read() settles with done: the loop ends, the length is compared, the
\* blob is built and the link clicked, unless building or saving it throws
ReadDone(sinkThrows) ==
  /\ pc = "awaitRead"
  /\ ReadResult(source, readPos) = "done"
  /\ warnings' = IF LengthMismatch(receivedLength, total)
                 THEN Append(warnings, [received |-> receivedLength, declared |-> total])
                 ELSE warnings
  /\ IF sinkThrows
     THEN /\ Throw(166, <<"Failed to construct 'Blob'">>)
          /\ UNCHANGED clicked
     ELSE /\ clicked' = Append(clicked, MakeLink(chunks, filename))
          /\ Leave(Fulfilled)
  /\ UNCHANGED <<source, readPos, readCalls, extraVars>>

\* the caller asks for the running session to be cancelled
Cancel ==
  /\ pc \in {"awaitFetch", "awaitRead"}
  /\ ~cancelSignal
  /\ cancelSignal' = TRUE
  /\ UNCHANGED <<appVars, handlerVars, frameVars, source, readPos, sessionVars>>
  /\ UNCHANGED extraVars

Next ==
  \/ \E u \in Urls : SetVideoUrl(u)
  \/ Click
  \/ \E gen \in GenOutcomes : InfoSettles(gen)
  \/ \E r \in FetchOutcomes : FetchSettles(r)
  \/ ReadChunk
  \/ ReadError
  \/ \E sinkThrows \in BOOLEAN : ReadDone(sinkThrows)
  \/ Cancel

Spec == Init /\ [][Next]_vars

\* the handler and the download run only while the input is disabled
FramesRunOnlyWhileDisabled ==
  /\ (hpc # "idle") => isLoading
  /\ (pc # "none") => (isDownloading /\ hpc = "awaitDownload")

(* --------------- two downloadFileWithProgress side by side ------------ *)

\* The isDownloading and downloadProgress that downloadFileWithProgress
\* writes are state of App, not of the call. A second call made while the
\* first is suspended runs the same code on locals of its own (the record
\* other) and on the same two pieces of state.

\* a second download of the same video is started while the first one runs:
\* downloadFileWithProgress up to its await of fetch
OtherStart ==
  /\ pc \in {"awaitFetch", "awaitRead"}
  /\ other = NoOther
  /\ isDownloading' = TRUE
  /\ downloadProgress' = Num(0, 1)
  /\ other' = [other EXCEPT !.pc = "awaitFetch", !.filename = filename,
                            !.outcome = Pending]
  /\ UNCHANGED <<videoUrl, videoDetails, isLoading, error>>
  /\ UNCHANGED <<handlerVars, frameVars, source, readPos, cancelSignal, sessionVars,
                 probe>>

\* the end of the second call: its catch and its finally
OtherLeave(o, result) ==
  /\ isDownloading' = FALSE
  /\ downloadProgress' = NullNumber
  /\ other' = [o EXCEPT !.pc = "none", !.outcome = result, !.filename = <<>>,
                        !.total = NullNumber, !.receivedLength = 0,
                        !.chunks = <<>>]
  /\ UNCHANGED <<videoUrl, videoDetails, isLoading, error>>
  /\ UNCHANGED <<handlerVars, frameVars, source, readPos, cancelSignal, sessionVars,
                 probe>>

\* fetch of the second call settles
OtherFetchSettles(r) ==
  /\ other.pc = "awaitFetch"
  /\ LET o == [other EXCEPT !.source = r, !.readPos = 0]
     IN IF r.rejects
        THEN OtherLeave(o, Rejected(DownloadErrorMessage(<<"Failed to fetch">>), 125))
        ELSE IF CheckResponse(r).line # 0
        THEN OtherLeave(o, Rejected(DownloadErrorMessage(CheckResponse(r).message),
                                    CheckResponse(r).line))
        ELSE /\ other' = [o EXCEPT !.total = ParseInt10(r.contentLength.value),
                                   !.receivedLength = 0, !.chunks = <<>>,
                                   !.pc = "awaitRead"]
             /\ UNCHANGED <<appVars, handlerVars, frameVars, source, readPos,
                            cancelSignal, sessionVars, probe>>

\* reader.read() of the second call settles with a chunk
OtherReadChunk ==
  /\ other.pc = "awaitRead"
  /\ ReadResult(other.source, other.readPos) = "chunk"
  /\ LET value == other.source.body[other.readPos + 1]
         received == AddReceived(other.receivedLength, value)
     IN /\ other' = [other EXCEPT !.chunks = PushChunk(other.chunks, value),
                                  !.receivedLength = received,
                                  !.readPos = other.readPos + 1]
        /\ downloadProgress' = Progress(received, other.total)
  /\ UNCHANGED <<videoUrl, videoDetails, isLoading, isDownloading, error>>
  /\ UNCHANGED <<handlerVars, frameVars, source, readPos, cancelSignal, sessionVars,
                 probe>>

\* reader.read() of the second call rejects
OtherReadError ==
  /\ other.pc = "awaitRead"
  /\ ReadResult(other.source, other.readPos) = "error"
  /\ OtherLeave(other, Rejected(DownloadErrorMessage(<<"network error">>), 151))

\* reader.read() of the second call settles with done
OtherReadDone(sinkThrows) ==
  /\ other.pc = "awaitRead"
  /\ ReadResult(other.source, other.readPos) = "done"
  /\ LET warned ==
           IF LengthMismatch(other.receivedLength, other.total)
           THEN Append(other.warnings, [received |-> other.receivedLength,
                                        declared |-> other.total])
           ELSE other.warnings
     IN IF sinkThrows
        THEN OtherLeave([other EXCEPT !.warnings = warned],
                        Rejected(DownloadErrorMessage(<<"Failed to construct 'Blob'">>),
                                 166))
        ELSE OtherLeave([other EXCEPT !.warnings = warned,
                                      !.clicked = Append(other.clicked,
                                                         MakeLink(other.chunks,
                                                                  other.filename))],
                        Fulfilled)

\* what fetch settles with when two downloads run side by side: a rejection,
\* a complete body, or a body that errors after its first chunk
TwoOutcomes ==
  {[NoSource EXCEPT !.rejects = TRUE],
   [rejects |-> FALSE, status |-> 200, hasBody |-> TRUE,
    contentLength |-> [present |-> TRUE, value |-> <<"4">>],
    body |-> BodyOf(<<1, 1, 2>>, 0), ends |-> "close"],
   [rejects |-> FALSE, status |-> 200, hasBody |-> TRUE,
    contentLength |-> [present |-> TRUE, value |-> <<"4">>],
    body |-> BodyOf(<<1>>, 0), ends |-> "error"]}

NextTwo ==
  \/ SetVideoUrl(WatchUrl)
  \/ Click
  \/ InfoSettles([rejects |-> TRUE, hasText |-> FALSE, text |-> <<>>])
  \/ \E r \in TwoOutcomes : FetchSettles(r)
  \/ ReadChunk
  \/ ReadError
  \/ \E sinkThrows \in BOOLEAN : ReadDone(sinkThrows)
  \/ OtherStart
  \/ \E r \in TwoOutcomes : OtherFetchSettles(r)
  \/ OtherReadChunk
  \/ OtherReadError
  \/ \E sinkThrows \in BOOLEAN : OtherReadDone(sinkThrows)

SpecTwo == Init /\ [][NextTwo]_vars

(* ------------------ safeFilename and fetchVideoInfo alone ------------- *)

\* characters of a title: letters of both cases, a digit, the three allowed
\* punctuation characters, and two that the pattern of line 171 removes
NameChars == {"a", "Z", "7", "_", "-", " ", "!", "\t"}

\* the titles safeFilename is called with: every short string of NameChars,
\* and the titles the description call can produce here
Names ==
  UNION {[1..n -> NameChars] : n \in 0..MaxNameLen}
  \cup {ScenarioTitle, SymbolsTitle, FallbackTitle, VideoToken}

Spaces(n) == [i \in 1..n |-> " "]

\* the texts generateContent answers with: nothing, something that is not
\* JSON, or a JSON value, with spaces around it
GenTexts ==
  {Spaces(i) \o core \o Spaces(j) :
     i \in 0..MaxPad, j \in 0..MaxPad,
     core \in {<<>>, <<"oops">>, <<"null">>, <<"{}">>, <<NoSummaryJson>>,
               <<EmptyTitleJson>>, <<TitledJson>>, <<SymbolsJson>>}}

ProbeGenOutcomes ==
  {[rejects |-> TRUE, hasText |-> FALSE, text |-> <<>>],
   [rejects |-> FALSE, hasText |-> FALSE, text |-> <<>>]}
  \cup {[rejects |-> FALSE, hasText |-> TRUE, text |-> t] : t \in GenTexts}

InitPure ==
  /\ InitApp
  /\ probe \in {[NoProbe EXCEPT !.fn = "safeFilename", !.name = n] : n \in Names}
             \cup {[NoProbe EXCEPT !.fn = "fetchVideoInfo", !.gen = g] :
                      g \in ProbeGenOutcomes}

\* safeFilename(title)
ProbeSafeFilename ==
  /\ probe.fn = "safeFilename" /\ probe.called = 0
  /\ probe' = [probe EXCEPT !.called = 1, !.safe = safeFilename(probe.name)]
  /\ UNCHANGED <<appVars, handlerVars, frameVars, source, readPos, cancelSignal,
                 sessionVars, other>>

\* safeFilename of what safeFilename returned
ProbeSafeFilenameAgain ==
  /\ probe.fn = "safeFilename" /\ probe.called = 1
  /\ probe' = [probe EXCEPT !.called = 2, !.again = safeFilename(probe.safe)]
  /\ UNCHANGED <<appVars, handlerVars, frameVars, source, readPos, cancelSignal,
                 sessionVars, other>>

\* await fetchVideoInfo(url), generateContent settling as probe.gen
ProbeFetchVideoInfo ==
  /\ probe.fn = "fetchVideoInfo" /\ probe.called = 0
  /\ probe' = [probe EXCEPT !.called = 1, !.info = fetchVideoInfo(probe.gen)]
  /\ UNCHANGED <<appVars, handlerVars, frameVars, source, readPos, cancelSignal,
                 sessionVars, other>>

NextPure ==
  \/ ProbeSafeFilename
  \/ ProbeSafeFilenameAgain
  \/ ProbeFetchVideoInfo

SpecPure == InitPure /\ [][NextPure]_vars

(* ------------------------ vocabulary of the claims -------------------- *)

\* the promise of the last downloadFileWithProgress has settled
Ended == pc = "none" /\ outcome.state \in {"fulfilled", "rejected"}

\* the response carries no usable content-length header
HeaderMissing(r) == ~r.contentLength.present \/ r.contentLength.value = <<>>

\* the response is one the read loop is entered with
Streamable(r) == ~r.rejects /\ ResponseOk(r) /\ r.hasBody /\ ~HeaderMissing(r)

\* the bytes 0 .. n-1 of the resource
ResourcePrefix(n) == [i \in 1..n |-> (i - 1) % 256]

\* the entries of the progress log that are numbers, in order
RECURSIVE Percentages(_)
Percentages(log) ==
  IF log = <<>> THEN <<>>
  ELSE IF Head(log).k = "null" THEN Percentages(Tail(log))
  ELSE <<Head(log)>> \o Percentages(Tail(log))

\* two numbers are the same value (a NaN is taken for the same as a NaN)
SameNumber(a, b) == a.k = b.k /\ (a.k = "num" => a.n * b.d = b.n * a.d)

SameNumbers(as, bs) ==
  Len(as) = Len(bs) /\ \A i \in 1..Len(as) : SameNumber(as[i], bs[i])

\* 100 * receivedBytes / declaredTotalBytes after each of the first n chunks
\* of a response
ChunkPercentages(src, n) ==
  [i \in 1..n |->
     JsDiv(Num(100 * TotalLength(SubSeq(src.body, 1, i)), 1),
           ParseInt10(src.contentLength.value))]

\* a resource of declared length 4 delivered in chunks of 1, 1 and 2 bytes
\* (the proportions of 1000 bytes delivered as 250, 250 and 500)
QuarterQuarterHalf ==
  [rejects |-> FALSE, status |-> 200, hasBody |-> TRUE,
   contentLength |-> [present |-> TRUE, value |-> <<"4">>],
   body |-> BodyOf(<<1, 1, 2>>, 0), ends |-> "close"]

\* the lexemes of a generated text that are not spaces
Unpadded(text) == SelectSeq(text, LAMBDA x : x # " ")

\* the characters of a name that are letters, digits, "_", " " or "-", in
\* the name's order
Kept(name) ==
  SelectSeq(name, LAMBDA c : c \in Lower \cup Upper \cup Digits \cup {"_", " ", "-"})

\* a string from its first to its last character that is not a space
Trimmed(s) ==
  LET solid == {i \in 1..Len(s) : s[i] # " "}
  IN IF solid = {} THEN <<>>
     ELSE SubSeq(s, CHOOSE i \in solid : \A j \in solid : i <= j,
                    CHOOSE i \in solid : \A j \in solid : i >= j)

MyVideo12024 == <<"M", "y", " ", "V", "i", "d", "e", "o", " ", "1", " ",
                  "2", "0", "2", "4">>

(* -------------------------------- claims ------------------------------ *)

\* C1: a response that is ok and has a body but no content-length header
\* makes the download fail at the header check (line 140) with the message
\* of the missing header: the read loop is never entered, reader.read is
\* never called, the only progress values are the initial 0 and the final
\* null, and no link is clicked.
C1_MissingLengthFails ==
  /\ (pc = "awaitRead") => ~HeaderMissing(source)
  /\ (Ended /\ ~source.rejects /\ ResponseOk(source) /\ source.hasBody
        /\ HeaderMissing(source))
       => /\ outcome = Rejected(<<"Could not download the video file. ",
                                  "Content-Length response header unavailable.">>, 140)
          /\ readCalls = 0
          /\ progressLog = <<Num(0, 1), NullNumber>>
          /\ clicked = <<>>

C1_Witness ==
  /\ Ended /\ ResponseOk(source) /\ source.hasBody
  /\ ~source.contentLength.present
  /\ outcome.thrownAt = 140

\* C2: when a cancellation has been requested while the read loop runs, the
\* session's next step, at which a read has delivered a chunk or the end of the
\* data, ends it as cancelled, with the accumulated chunks dropped and no
\* link clicked.
C2_CancelObserved ==
  [][(cancelSignal /\ pc = "awaitRead" /\ ReadResult(source, readPos) # "error")
       => /\ outcome'.state = "cancelled"
          /\ pc' = "none"
          /\ chunks' = <<>>
          /\ clicked' = <<>>]_vars

\* C3: a read that fails, after any number of chunks, makes the download fail
\* with the read's error, drops the chunks and clicks no link; a link is
\* clicked at most once and only when the body was read to its end and closed.
C3_ReadErrorNoArtifact ==
  /\ (Ended /\ Streamable(source) /\ source.ends = "error")
       => /\ outcome = Rejected(<<"Could not download the video file. ",
                                  "network error">>, 151)
          /\ readPos = Len(source.body)
          /\ chunks = <<>>
          /\ clicked = <<>>
  /\ Len(clicked) <= 1
  /\ (clicked # <<>>)
       => /\ Streamable(source)
          /\ source.ends = "close"
          /\ readPos = Len(source.body)
          /\ outcome = Fulfilled

C3_Witness ==
  /\ Ended /\ Streamable(source) /\ source.ends = "error"
  /\ Len(source.body) >= 2 /\ readPos = Len(source.body)
  /\ outcome.thrownAt = 151

\* C4: while the read loop runs, the chunks held add up to receivedLength,
\* and receivedLength does not decrease from one turn of the loop to the next.
C4_AccumulatorMatchesCounter ==
  /\ []((pc = "awaitRead") => TotalLength(chunks) = receivedLength)
  /\ [][(pc = "awaitRead" /\ pc' = "awaitRead") => receivedLength' >= receivedLength]_vars

C4_Witness ==
  /\ pc = "awaitRead"
  /\ Len(chunks) >= 3
  /\ receivedLength >= 3
  /\ \E i \in 1..Len(chunks) : chunks[i] = <<>>

\* C5: the blob behind a clicked link holds the N bytes of the body, which
\* are the bytes 0 .. N-1 of the resource in their order, whatever chunks the
\* body was cut into.
C5_ArtifactIsConcatenation ==
  (clicked # <<>>)
    => /\ Len(clicked[1].bytes) = TotalLength(source.body)
       /\ clicked[1].bytes = ResourcePrefix(TotalLength(source.body))

C5_Witness ==
  /\ clicked # <<>>
  /\ Len(source.body) >= 3
  /\ \A i \in 1..Len(source.body) : Len(source.body[i]) >= 1
  /\ Len(clicked[1].bytes) >= 4

\* C6: among the numbers one session has passed to setDownloadProgress, none
\* is smaller than one passed before it.
C6_ProgressMonotone ==
  LET ps == Percentages(progressLog)
  IN \A i, j \in 1..Len(ps) : (i < j) => ~JsLess(ps[j], ps[i])

C6_Witness ==
  LET ps == Percentages(progressLog)
  IN /\ Len(ps) >= 4
     /\ \A i \in 1..(Len(ps) - 1) : JsLess(ps[i], ps[i + 1])

\* C7: when the body closes, a warning with the received and the declared
\* length is logged exactly when the two differ, and the download still
\* returns with a link to the received bytes clicked unless building or
\* saving the blob throws.
C7_MismatchIsWarning ==
  (Ended /\ Streamable(source) /\ source.ends = "close")
    => LET received == TotalLength(source.body)
           declared == ParseInt10(source.contentLength.value)
       IN /\ warnings = IF received # declared.n
                        THEN <<[received |-> received, declared |-> declared]>>
                        ELSE <<>>
          /\ \/ /\ outcome = Fulfilled
                /\ Len(clicked) = 1
                /\ Len(clicked[1].bytes) = received
             \/ /\ outcome.state = "rejected"
                /\ outcome.thrownAt = 166
                /\ clicked = <<>>

C7_Witness ==
  /\ Ended /\ outcome = Fulfilled /\ clicked # <<>>
  /\ Len(warnings) = 1
  /\ warnings[1].received < warnings[1].declared.n
  /\ warnings[1].received > 0

\* C8: a response that is not ok, or has no body, makes the download fail at
\* the status check (line 131) or the body check (line 135), whatever its
\* content-length header is: reader.read is never called and no link is clicked.
C8_TransportErrorFirst ==
  /\ (pc = "awaitRead") => (ResponseOk(source) /\ source.hasBody)
  /\ (Ended /\ ~source.rejects /\ ~ResponseOk(source))
       => /\ outcome = Rejected(<<"Could not download the video file. ",
                                  "HTTP error! status: ", ToString(source.status)>>, 131)
          /\ readCalls = 0
          /\ clicked = <<>>
  /\ (Ended /\ ~source.rejects /\ ResponseOk(source) /\ ~source.hasBody)
       => /\ outcome = Rejected(<<"Could not download the video file. ",
                                  "Response body is null.">>, 135)
          /\ readCalls = 0
          /\ clicked = <<>>

C8_Witness ==
  /\ Ended /\ ~source.rejects
  /\ ~ResponseOk(source)
  /\ HeaderMissing(source)
  /\ outcome.thrownAt = 131

\* C9: a response whose content-length header is 0 never enters the read
\* loop: reader.read is not called for it and no progress value is computed
\* with a zero divisor.
C9_ZeroTotalNeverStreams ==
  (~source.rejects /\ source.contentLength.present
     /\ ParseInt10(source.contentLength.value) = Num(0, 1))
    => /\ pc # "awaitRead"
       /\ readCalls = 0
       /\ \A i \in 1..Len(progressLog) : progressLog[i].k \in {"num", "null"}

\* C10: one run of downloadFileWithProgress calls fetch once, and once its
\* promise has settled nothing of the session changes any more: the only
\* step that touches its record is the next click, which starts a new run of
\* handleFetchVideo with an empty record.
C10_SingleAttempt ==
  /\ [](fetchCalls <= 1)
  /\ [][Ended
          => \/ UNCHANGED <<pc, source, readPos, fetchCalls, readCalls, progressLog,
                            warnings, clicked, outcome, isDownloading,
                            downloadProgress>>
             \/ /\ ~Disabled
                /\ outcome' = NoOutcome
                /\ fetchCalls' = 0 /\ readCalls' = 0
                /\ progressLog' = <<>> /\ clicked' = <<>>
                /\ UNCHANGED <<pc, isDownloading, downloadProgress>>]_vars

C10_Witness ==
  /\ Ended
  /\ outcome.state = "rejected"
  /\ fetchCalls = 1
  /\ videoUrl = <<>>

\* C11: what a running download shows is its own: while it is suspended at
\* fetch or at a read, isDownloading is true and downloadProgress is the
\* last value this download gave to setDownloadProgress, whatever another
\* download running beside it does.
C11_SessionsIndependent ==
  (pc \in {"awaitFetch", "awaitRead"})
    => /\ isDownloading
       /\ progressLog # <<>>
       /\ downloadProgress = progressLog[Len(progressLog)]

C13_AlwaysResolves ==
  (probe.fn = "fetchVideoInfo" /\ probe.called = 1)
    => LET g == probe.gen
           core == Unpadded(g.text)
           parsed == ~g.rejects /\ g.hasText
                       /\ core \in {<<TitledJson>>, <<SymbolsJson>>}
       IN /\ probe.info.title # <<>> /\ probe.info.summary # <<>>
          /\ ~parsed => probe.info = FallbackInfo
          /\ (parsed /\ core = <<TitledJson>>)
               => probe.info = [title |-> ScenarioTitle, summary |-> <<"S">>]
          /\ (parsed /\ core = <<SymbolsJson>>)
               => probe.info = [title |-> SymbolsTitle, summary |-> <<"S">>]

C13_Witness ==
  /\ probe.fn = "fetchVideoInfo" /\ probe.called = 1
  /\ probe.gen.hasText /\ probe.gen.text = <<" ", EmptyTitleJson>>
  /\ probe.info = FallbackInfo

\* C14: safeFilename returns for every title a string that is not empty: the
\* token "video" when stripping and trimming leave nothing, and what they
\* leave otherwise, so that the result is "video" only when nothing or
\* "video" itself is left.
C14_NeverEmpty ==
  (probe.fn = "safeFilename" /\ probe.called >= 1)
    => LET left == Trimmed(Kept(probe.name))
       IN /\ probe.safe # <<>>
          /\ (left = <<>>) => probe.safe = VideoToken
          /\ (probe.safe = VideoToken) => left \in {<<>>, VideoToken}

C14_Witness ==
  /\ probe.fn = "safeFilename" /\ probe.called = 1
  /\ probe.name = <<" ", "!", " ">>
  /\ probe.safe = VideoToken

\* C15: applying safeFilename to its own result gives that result again.
C15_Idempotent ==
  (probe.fn = "safeFilename" /\ probe.called = 2) => probe.again = probe.safe

C15_Witness ==
  /\ probe.fn = "safeFilename" /\ probe.called = 2
  /\ probe.name = <<"!", " ", "a">>
  /\ probe.safe = <<"a">> /\ probe.again = <<"a">>

C17_ErrorIffFailed ==
  /\ (pc # "none") => error = <<>>
  /\ Ended => ((error # <<>>) <=> (outcome.state = "rejected"))
  /\ (Ended /\ outcome.state = "rejected")
       => error = <<"Failed to process video. ">> \o outcome.message
  /\ (Ended /\ (source.rejects \/ CheckResponse(source).line # 0
                   \/ source.ends = "error"))
       => outcome.state = "rejected"
  /\ (Ended /\ outcome.state = "rejected")
       => outcome.thrownAt \in {125, 131, 135, 140, 151, 166}

C17_Witness ==
  /\ Ended
  /\ outcome.thrownAt = 166
  /\ error = <<"Failed to process video. ", "Could not download the video file. ",
               "Failed to construct 'Blob'">>

\* C18: while downloadFileWithProgress runs isDownloading is true and every
\* value given to setDownloadProgress is a number; once it has ended, on
\* whichever path, isDownloading is false, downloadProgress is null, and the
\* null is the last value given to setDownloadProgress and the only null.
C18_ResetOnEveryExit ==
  /\ (pc # "none")
       => /\ isDownloading
          /\ \A i \in 1..Len(progressLog) : progressLog[i].k # "null"
  /\ Ended
       => /\ ~isDownloading
          /\ downloadProgress = NullNumber
          /\ Len(progressLog) >= 2
          /\ progressLog[Len(progressLog)] = NullNumber
          /\ \A i \in 1..(Len(progressLog) - 1) : progressLog[i].k # "null"

C18_Witness ==
  /\ Ended
  /\ outcome.thrownAt = 151
  /\ Len(progressLog) >= 4
  /\ ~isDownloading /\ downloadProgress = NullNumber

\* C19: fetch is not called before fetchVideoInfo has settled, and when it
\* settles, with the parsed record or with the fallback record, the handler
\* stores the details and starts downloadFileWithProgress with the title of
\* that record as file name; after a fallback the link that is clicked is
\* named "AI Could Not Determine Title.mp4".
C19_TransferAfterDescription ==
  /\ [](/\ (hpc = "awaitInfo")
            => (pc = "none" /\ fetchCalls = 0 /\ outcome = NoOutcome)
        /\ (pc # "none")
            => /\ videoDetails # <<>>
               /\ filename = videoDetails[1].title
        /\ (clicked # <<>> /\ videoDetails[1].title = FallbackTitle)
            => clicked[1].download = FallbackTitle \o <<".", "m", "p", "4">>)
  /\ [][(hpc = "awaitInfo" /\ hpc' # "awaitInfo")
          => /\ pc' = "awaitFetch"
             /\ fetchCalls' = 1
             /\ videoDetails' # <<>>
             /\ filename' = videoDetails'[1].title]_vars

C19_Witness ==
  /\ Ended /\ clicked # <<>>
  /\ videoDetails[1].title = FallbackTitle
  /\ clicked[1].download = FallbackTitle \o <<".", "m", "p", "4">>

\* C20: a click with an empty url, or with a url that holds no 11-character
\* id, sets the error message and nothing else of the app: isLoading,
\* isDownloading, downloadProgress and videoDetails stay as they are, and
\* neither fetchVideoInfo nor downloadFileWithProgress is called; and
\* isLoading is true exactly while a run of handleFetchVideo is suspended at
\* one of its awaits, so it is false again however the run ended.
C20_InvalidUrlOnlySetsError ==
  /\ [](/\ isLoading <=> (hpc # "idle")
        /\ Ended => ~isLoading)
  /\ [][(hpc = "idle" /\ videoUrl' = videoUrl /\ videoUrl \in {<<>>, ShortIdUrl})
          => /\ UNCHANGED <<isLoading, isDownloading, downloadProgress, videoDetails>>
             /\ UNCHANGED <<hpc, pc>>
             /\ fetchCalls' = 0
             /\ error' = IF videoUrl = <<>>
                         THEN <<"Please enter a YouTube URL.">>
                         ELSE <<"Invalid YouTube URL. Please check and try again.">>]_vars

C20_Witness ==
  /\ hpc = "idle" /\ ~isLoading
  /\ videoUrl = ShortIdUrl
  /\ error = <<"Invalid YouTube URL. Please check and try again.">>
  /\ videoDetails # <<>>
  /\ outcome = NoOutcome

====
